---- MODULE Spec2Model ----
(***************************************************************************)
(* Parachain consensus follower of cumulus                                 *)
(* (client/consensus/common/src/parachain_consensus.rs).                   *)
(*                                                                         *)
(* Four pieces of the file are modelled:                                   *)
(*   - follow_new_best with its three handlers and the deferred            *)
(*     ("unset") best header,                                              *)
(*   - follow_finalized_head,                                              *)
(*   - run_parachain_consensus, which ends with the first sub-driver,      *)
(*   - the CandidateRecovery structure and its four operations.            *)
(* The parachain client, the relay chain and the overseer are the          *)
(* environment: what they return is chosen nondeterministically.           *)
(***************************************************************************)
EXTENDS Integers, Sequences, FiniteSets, TLC

\* ------------------------------------------------------------------ bounds
MaxNumber == 2
MaxQueue == 1
MaxReceipt == 2
MaxTimers == 2

\* ----------------------------------------------------------------- headers
\* A parachain header: only its number and the chain (fork) it belongs to
\* are observed. Chain 0 has a block at every height, chain 1 a competing
\* block at the top height.
Numbers == 1..MaxNumber
Forks == {0, 1}
Headers == {[number |-> n, fork |-> 0] : n \in Numbers} \cup {[number |-> MaxNumber, fork |-> 1]}

\* Two headers are on the same fork when they are the same block or one is
\* an ancestor of the other: the blocks of chain 0 below the top height are
\* ancestors of everything above them.
SameFork(a, b) == a = b \/ (a.fork = 0 /\ a.number < b.number) \/ (b.fork = 0 /\ b.number < a.number)

\* header.hash(): an injective digest of the header's content.
Hash(header) == header.number * 2 + header.fork
Hashes == {Hash(h) : h \in Headers}
GenesisHash == 0

\* Header::encode: the bytes the relay chain carries for a header.
Encode(header) == <<header.number, header.fork>>
\* Bytes that are no header.
Malformed == <<>>
HeadData == {Encode(h) : h \in Headers} \cup {Malformed}

\* Header::decode: Ok(header) or Err.
Decode(bytes) == IF Len(bytes) = 2 /\ bytes[1] \in Numbers /\ bytes[2] \in Forks THEN [ok |-> TRUE, header |-> [number |-> bytes[1], fork |-> bytes[2]]] ELSE [ok |-> FALSE, header |-> [number |-> 0, fork |-> 0]]

\* Option<T>: None is the empty sequence, Some(x) the sequence <<x>>.
None == <<>>
Some(x) == <<x>>

\* ------------------------------------------------------- client vocabulary
\* sp_consensus::BlockStatus is written as its name: "Unknown", "Queued",
\* "InChainWithState", "InChainPruned"; "Err" is a failed block_status query.
\* How the client answers a block_status query: with the status of its
\* database, with Queued for a block its import queue holds but its database
\* does not, or with an error.
Answers == {"Ok", "Queued", "Err"}
\* sp_consensus::BlockOrigin is written as its name: "Own",
\* "NetworkBroadcast", "ConsensusBroadcast".

VARIABLES
    \* parachain client (environment)
    block_status,        \* hash -> BlockStatus
    best_hash,           \* usage_info().chain.best_hash
    finalized_hash,      \* usage_info().chain.finalized_hash
    imported_blocks,     \* import_notification_stream(): notifications not yet read
    \* follow_new_best
    unset_best_header,   \* Option<Header>
    \* run_parachain_consensus
    exited,              \* Option<[driver, result]>: the sub-driver that returned first
    \* CandidateRecovery
    pending_candidates,        \* HashMap: hash -> Option<PendingCandidate>
    next_candidate_to_recover, \* armed timers: hash -> number of timers carrying it
    recovering_candidates,     \* HashSet<Hash>
    \* observation: the last step, and what the calls so far were about
    ev,                  \* the event processed by the last step and the calls it made
    last_finalize,       \* Option<[hash, ok]>: the latest finalize_block call
    imported_told,       \* hashes block_imported was called with
    inserted_since,      \* of those, the ones inserted again afterwards
    finalized_told,      \* highest number block_finalized was called with (0: never)
    last_recovery        \* Option<hash>: the candidate of the latest recovery request
                         \* the overseer took, until the overseer answers it

vars == <<block_status, best_hash, finalized_hash, imported_blocks, unset_best_header, exited, pending_candidates, next_candidate_to_recover, recovering_candidates, ev, last_finalize, imported_told, inserted_since, finalized_told, last_recovery>>

clientVars == <<block_status, best_hash, finalized_hash, imported_blocks>>
recoveryVars == <<pending_candidates, next_candidate_to_recover, recovering_candidates>>
recoveryHistory == <<imported_told, inserted_since, finalized_told, last_recovery>>

NoHash == 0 - 1
NoHeader == [number |-> 0, fork |-> 0]

NoNotification == [hash |-> NoHash, header |-> NoHeader, origin |-> "none", is_new_best |-> FALSE]

\* The record of a step: which event was processed, what the handler read
\* (the block status, the notification, the deferred header before it ran)
\* and the calls it made.
Event(kind, hash) == [kind |-> kind, hash |-> hash, number |-> 0, status |-> "none", note |-> NoNotification, before |-> None, imports |-> <<>>, announces |-> <<>>, finalizes |-> <<>>, sends |-> <<>>]

Init ==
    /\ block_status = [h \in Hashes |-> "Unknown"]
    /\ best_hash = GenesisHash
    /\ finalized_hash = GenesisHash
    /\ imported_blocks = <<>>
    /\ unset_best_header = None
    /\ exited = None
    /\ pending_candidates = [h \in Hashes |-> None]
    /\ next_candidate_to_recover = [h \in Hashes |-> 0]
    /\ recovering_candidates = {}
    /\ ev = Event("init", NoHash)
    /\ last_finalize = None
    /\ imported_told = {}
    /\ inserted_since = {}
    /\ finalized_told = 0
    /\ last_recovery = None

\* ------------------------------------------------------ the parachain client
\* A notification of import_notification_stream().
Notification(header, origin, is_new_best) == [hash |-> Hash(header), header |-> header, origin |-> origin, is_new_best |-> is_new_best]

\* parachain.block_status(hash): Ok(status) or Err.
BlockStatusOf(statuses, hash, answer) == IF answer = "Err" THEN "Err" ELSE IF answer = "Queued" /\ statuses[hash] = "Unknown" THEN "Queued" ELSE statuses[hash]

\* The client imports a block it did not have (authored here or received)
\* and puts the notification on the stream.
ClientImport(header, origin, is_new_best) ==
    LET h == Hash(header) IN
    /\ block_status[h] = "Unknown"
    /\ Len(imported_blocks) < MaxQueue
    /\ block_status' = [block_status EXCEPT ![h] = "InChainWithState"]
    /\ best_hash' = IF is_new_best THEN h ELSE best_hash
    /\ imported_blocks' = Append(imported_blocks, Notification(header, origin, is_new_best))
    /\ ev' = Event("client_import", NoHash)
    /\ UNCHANGED <<exited, finalized_hash, unset_best_header, recoveryVars, last_finalize, recoveryHistory>>

\* The header a hash is the digest of.
HeaderOf(h) == CHOOSE header \in Headers : Hash(header) = h

\* The client prunes the state of an old block: one that is not its best
\* block and has a higher block above it in the database.
ClientPrune(h) ==
    /\ block_status[h] = "InChainWithState"
    /\ h # best_hash
    /\ \E g \in Hashes : block_status[g] # "Unknown" /\ HeaderOf(g).number > HeaderOf(h).number
    /\ block_status' = [block_status EXCEPT ![h] = "InChainPruned"]
    /\ ev' = Event("client_prune", NoHash)
    /\ UNCHANGED <<exited, best_hash, finalized_hash, imported_blocks, unset_best_header, recoveryVars, last_finalize, recoveryHistory>>

\* What the client does with the import_block requests of one handler run
\* (at most one): on success the block becomes the best block and a
\* notification with the request's origin is put on the stream.
ImportSucceeds(imports, ok) == imports # <<>> /\ ok

\* The client answers only what a handler run r asked: a block_status
\* answer when the status was read (Queued only for a block it was read
\* as), an import_block outcome when a request was made.
Asked(r, answer, ok) == (r.status = "none" => answer = "Ok") /\ (answer = "Queued" => r.status = "Queued") /\ (r.imports = <<>> => ~ok)

ClientImportBlock(stream, imports, ok) ==
    IF ImportSucceeds(imports, ok)
    THEN LET req == imports[1] IN
         /\ Len(stream) < MaxQueue
         /\ best_hash' = req.hash
         /\ imported_blocks' = Append(stream, Notification(req.header, req.origin, TRUE))
    ELSE /\ imported_blocks' = stream
         /\ UNCHANGED best_hash

\* ------------------------------------------------------------ follow_new_best
\* An import request that leaves import_existing at its default.
ImportBlockDefault(hash, header) == [hash |-> hash, header |-> header, origin |-> "ConsensusBroadcast", fork_choice |-> "Custom(true)", import_existing |-> FALSE]

\* import_block_as_new_best: the request handed to import_block.
ImportBlockAsNewBest(hash, header) == [hash |-> hash, header |-> header, origin |-> "ConsensusBroadcast", fork_choice |-> "Custom(true)", import_existing |-> TRUE]

\* Arms of the match that go wrong: an Unknown arm that keeps a header
\* already deferred, a catch-all arm that defers the header as the Unknown
\* arm does, a pruned arm that clears the deferred header.
OnUnknownKeepFirst(unset, parachain_head) == IF unset = None THEN Some(parachain_head) ELSE unset
OnOtherStatusDefer(unset, parachain_head) == Some(parachain_head)
OnInChainPrunedClear(unset) == None

\* An Unknown arm that keeps a deferred header of a higher number.
OnUnknownKeepHigher(unset, parachain_head) == IF unset # None /\ unset[1].number > parachain_head.number THEN unset ELSE Some(parachain_head)

\* The arms of the block_status match of handle_new_best_parachain_head:
\* the deferred header each leaves.
OnInChainWithState(unset) == None
OnInChainPruned(unset) == unset
OnUnknown(unset, parachain_head) == Some(parachain_head)
OnOtherStatus(unset, parachain_head) == unset

\* handle_new_best_parachain_head: the deferred header afterwards, the
\* import_block requests made and what was read.
HandleNewBestParachainHead(head, best, statuses, answer, unset) ==
    LET d == Decode(head)
        hash == Hash(d.header)
        status == BlockStatusOf(statuses, hash, answer)
    IN  IF ~d.ok THEN [unset |-> unset, imports |-> <<>>, hash |-> NoHash, status |-> "none"]
        ELSE IF best = hash THEN [unset |-> unset, imports |-> <<>>, hash |-> hash, status |-> "none"]
        ELSE IF status = "InChainWithState" THEN [unset |-> OnInChainWithState(unset), imports |-> <<ImportBlockAsNewBest(hash, d.header)>>, hash |-> hash, status |-> status]
        ELSE IF status = "InChainPruned" THEN [unset |-> OnInChainPruned(unset), imports |-> <<>>, hash |-> hash, status |-> status]
        ELSE IF status = "Unknown" THEN [unset |-> OnUnknown(unset, d.header), imports |-> <<>>, hash |-> hash, status |-> status]
        ELSE [unset |-> OnOtherStatus(unset, d.header), imports |-> <<>>, hash |-> hash, status |-> status]

\* new_best_heads.next() yields a head: follow_new_best runs the handler.
NewBestHead(head, answer, ok) ==
    LET r == HandleNewBestParachainHead(head, best_hash, block_status, answer, unset_best_header) IN
    /\ exited = None
    /\ Asked(r, answer, ok)
    /\ unset_best_header' = r.unset
    /\ ClientImportBlock(imported_blocks, r.imports, ok)
    /\ ev' = [Event("new_best", r.hash) EXCEPT !.status = r.status, !.before = unset_best_header, !.imports = r.imports]
    /\ UNCHANGED <<exited, block_status, finalized_hash, recoveryVars, last_finalize, recoveryHistory>>

\* An announce filter that lets only blocks received from the network pass.
ShouldAnnounceNetworkOnly(origin) == origin = "NetworkBroadcast"

\* The HACK of handle_new_block_imported: which notifications are announced.
ShouldAnnounce(origin) == origin # "Own"

\* The announce_block call: the hash, and no associated data.
AnnounceBlock(hash) == [hash |-> hash, data |-> None]

\* A match that ends the handler only when no header is deferred.
EndsHereWithoutDeferred(is_new_best, unset) == unset = None

\* The match on (is_new_best, unset_best_header) of
\* handle_new_block_imported: whether the handler ends there.
EndsHere(is_new_best, unset) == is_new_best \/ unset = None

\* A comparison that goes on only for the deferred block itself.
PromotionAttemptedSameHash(notification, u) == Hash(u) = notification.hash

\* Whether handle_new_block_imported goes on to the status check of the
\* deferred header u for this notification.
PromotionAttempted(notification, u) ==
    IF notification.header.number < u.number THEN FALSE
    ELSE IF notification.header.number = u.number THEN Hash(u) = notification.hash
    ELSE TRUE

\* A re-check that also promotes a block whose state was pruned.
PromotesInChain(status) == status \in {"InChainWithState", "InChainPruned"}

\* The match on the re-checked status of the deferred header: the arm that
\* takes the header and imports it.
Promotes(status) == status = "InChainWithState"

\* handle_new_block_imported: the announce calls, the deferred header
\* afterwards, the import_block requests and the status read.
HandleNewBlockImported(notification, unset, statuses, answer) ==
    LET announces == IF ShouldAnnounce(notification.origin) THEN <<AnnounceBlock(notification.hash)>> ELSE <<>>
        stay == [unset |-> unset, imports |-> <<>>, announces |-> announces, status |-> "none"]
    IN  IF EndsHere(notification.is_new_best, unset) THEN stay
        ELSE LET u == unset[1]
                 unset_hash == Hash(u)
                 status == BlockStatusOf(statuses, unset_hash, answer)
             IN  IF ~PromotionAttempted(notification, u) THEN stay
                 ELSE IF Promotes(status) THEN [unset |-> None, imports |-> <<ImportBlockAsNewBest(unset_hash, u)>>, announces |-> announces, status |-> status]
                 ELSE [stay EXCEPT !.status = status]

\* imported_blocks.next() yields a notification: follow_new_best runs the
\* handler.
ImportedBlock(answer, ok) ==
    /\ exited = None
    /\ imported_blocks # <<>>
    /\ LET n == Head(imported_blocks)
           r == HandleNewBlockImported(n, unset_best_header, block_status, answer)
       IN  /\ Asked(r, answer, ok)
           /\ unset_best_header' = r.unset
           /\ ClientImportBlock(Tail(imported_blocks), r.imports, ok)
           /\ ev' = [Event("imported", n.hash) EXCEPT !.status = r.status, !.note = n, !.before = unset_best_header, !.imports = r.imports, !.announces = r.announces]
    /\ UNCHANGED <<exited, block_status, finalized_hash, recoveryVars, last_finalize, recoveryHistory>>

\* handle_pending_candidate: decodes the head data of the candidate and
\* reads the block status; every branch ends there. The receipt and the
\* session index are not read.
HandlePendingCandidate(head_data, statuses, answer) ==
    LET d == Decode(head_data)
        hash == Hash(d.header)
    IN  IF ~d.ok THEN [hash |-> NoHash, status |-> "none", imports |-> <<>>]
        ELSE [hash |-> hash, status |-> BlockStatusOf(statuses, hash, answer), imports |-> <<>>]

\* pending_candidates.next() yields a candidate: follow_new_best runs the
\* handler.
PendingCandidateItem(head_data, answer) ==
    LET r == HandlePendingCandidate(head_data, block_status, answer) IN
    /\ exited = None
    /\ Asked(r, answer, FALSE)
    /\ ev' = [Event("pending_candidate", r.hash) EXCEPT !.status = r.status]
    /\ UNCHANGED <<exited, clientVars, unset_best_header, recoveryVars, last_finalize, recoveryHistory>>

\* ------------------------------------------------------ follow_finalized_head
\* follow_finalized_head without the comparison with the finalized hash.
HandleFinalizedHeadAlways(finalized_head, finalized) ==
    LET d == Decode(finalized_head)
        hash == Hash(d.header)
    IN  IF ~d.ok THEN [hash |-> NoHash, finalizes |-> <<>>]
        ELSE [hash |-> hash, finalizes |-> <<hash>>]

\* One turn of the loop of follow_finalized_head for a head of the stream:
\* the finalize_block calls it makes (at most one).
HandleFinalizedHead(finalized_head, finalized) ==
    LET d == Decode(finalized_head)
        hash == Hash(d.header)
    IN  IF ~d.ok THEN [hash |-> NoHash, finalizes |-> <<>>]
        ELSE IF finalized # hash THEN [hash |-> hash, finalizes |-> <<hash>>]
        ELSE [hash |-> hash, finalizes |-> <<>>]

\* What finalize_block can return for a block: UnknownBlock for a block the
\* client does not have, Ok or another error for one it has.
FinalizeOutcomes(status) == IF status = "Unknown" THEN {"UnknownBlock"} ELSE {"Ok", "Err"}

\* finalized_heads.next() yields a head.
FinalizedHead(finalized_head, outcome) ==
    LET r == HandleFinalizedHead(finalized_head, finalized_hash) IN
    /\ exited = None
    /\ IF r.finalizes # <<>>
       THEN /\ outcome \in FinalizeOutcomes(block_status[r.hash])
            /\ finalized_hash' = IF outcome = "Ok" THEN r.hash ELSE finalized_hash
            /\ last_finalize' = Some([hash |-> r.hash, outcome |-> outcome])
       ELSE /\ outcome = "Ok"
            /\ UNCHANGED <<finalized_hash, last_finalize>>
    /\ ev' = [Event("finalized_head", r.hash) EXCEPT !.status = outcome, !.finalizes = r.finalizes]
    /\ UNCHANGED <<exited, block_status, best_hash, imported_blocks, unset_best_header, recoveryVars, recoveryHistory>>

\* ---------------------------------------------------- run_parachain_consensus
\* The streams the two sub-drivers read.
Streams == {"new_best_heads", "imported_blocks", "pending_candidates", "finalized_heads"}

\* What the sub-driver reading a stream returns when the stream yields None:
\* follow_finalized_head returns Ok(()), follow_new_best returns.
DriverReturn(stream) == IF stream = "finalized_heads" THEN [driver |-> "follow_finalized_head", result |-> "Ok(())"] ELSE [driver |-> "follow_new_best", result |-> "()"]

\* A select that goes on waiting for the other sub-driver.
SelectBoth(returned) == None

\* select! of run_parachain_consensus: the task completes with the first
\* sub-driver that returns, the other one is dropped.
SelectFirst(returned) == Some(returned)

\* A stream yields None. The import notifications already queued are
\* yielded before the end of their stream.
StreamEnds(stream) ==
    /\ exited = None
    /\ stream = "imported_blocks" => imported_blocks = <<>>
    /\ exited' = SelectFirst(DriverReturn(stream))
    /\ ev' = [Event("stream_end", NoHash) EXCEPT !.status = stream]
    /\ UNCHANGED <<clientVars, unset_best_header, recoveryVars, last_finalize, recoveryHistory>>

\* ---------------------------------------------------------- CandidateRecovery
\* The candidates the relay chain can announce for a block: a receipt and
\* the session index of the relay block it came with (a session spans two
\* receipts).
Receipts == 1..MaxReceipt
SessionOf(receipt) == (receipt + 1) \div 2

\* struct PendingCandidate.
PendingCandidate(receipt, session_index, block_number) == [receipt |-> receipt, session_index |-> session_index, block_number |-> block_number]

\* The keys of the pending_candidates map.
PendingKeys(pending) == {h \in Hashes : pending[h] # None}

\* The number of armed timers of next_candidate_to_recover.
RECURSIVE Armed(_, _)
Armed(timers, hs) == IF hs = {} THEN 0 ELSE LET h == CHOOSE x \in hs : TRUE IN timers[h] + Armed(timers, hs \ {h})

\* HashMap::insert of insert_pending_candidate: the map afterwards.
InsertedPending(pending, hash, candidate) == [pending EXCEPT ![hash] = Some(candidate)]

\* An insert that arms a timer only for the first key of the map.
ArmsTimerIfEmpty(pending, hash) == PendingKeys(pending) = {}

\* insert_pending_candidate: a timer is armed unless the map held the hash.
ArmsTimer(pending, hash) == pending[hash] = None

\* CandidateRecovery::insert_pending_candidate. The block number is the
\* number of the header the hash is the digest of.
InsertPendingCandidate(header, receipt, session_index) ==
    LET hash == Hash(header) IN
    /\ ArmsTimer(pending_candidates, hash) => Armed(next_candidate_to_recover, Hashes) < MaxTimers
    /\ pending_candidates' = InsertedPending(pending_candidates, hash, PendingCandidate(receipt, session_index, header.number))
    /\ next_candidate_to_recover' = IF ArmsTimer(pending_candidates, hash) THEN [next_candidate_to_recover EXCEPT ![hash] = @ + 1] ELSE next_candidate_to_recover
    /\ inserted_since' = inserted_since \cup ({hash} \cap imported_told)
    /\ ev' = [Event("insert", hash) EXCEPT !.number = header.number, !.status = IF ArmsTimer(pending_candidates, hash) THEN "armed" ELSE "replaced"]
    /\ UNCHANGED <<exited, clientVars, unset_best_header, recovering_candidates, last_finalize, imported_told, finalized_told, last_recovery>>

\* block_imported that leaves the map as it is.
RemoveImportedNot(pending, hash) == pending

\* block_imported: the map afterwards.
RemoveImported(pending, hash) == [pending EXCEPT ![hash] = None]

\* CandidateRecovery::block_imported.
BlockImported(hash) ==
    /\ pending_candidates' = RemoveImported(pending_candidates, hash)
    /\ imported_told' = imported_told \cup {hash}
    /\ inserted_since' = inserted_since \ {hash}
    /\ ev' = Event("block_imported", hash)
    /\ UNCHANGED <<exited, clientVars, unset_best_header, next_candidate_to_recover, recovering_candidates, last_finalize, finalized_told, last_recovery>>

\* A retain that also keeps the entries at the finalized number.
RetainFrom(pending, block_number) == [h \in Hashes |-> IF pending[h] # None /\ pending[h][1].block_number >= block_number THEN pending[h] ELSE None]

\* block_finalized: retain keeps the entries above the finalized number.
RetainAbove(pending, block_number) == [h \in Hashes |-> IF pending[h] # None /\ pending[h][1].block_number > block_number THEN pending[h] ELSE None]

\* CandidateRecovery::block_finalized.
BlockFinalized(block_number) ==
    /\ pending_candidates' = RetainAbove(pending_candidates, block_number)
    /\ finalized_told' = IF block_number > finalized_told THEN block_number ELSE finalized_told
    /\ ev' = [Event("block_finalized", NoHash) EXCEPT !.number = block_number]
    /\ UNCHANGED <<exited, clientVars, unset_best_header, next_candidate_to_recover, recovering_candidates, last_finalize, imported_told, inserted_since, last_recovery>>

\* AvailabilityRecoveryMessage::RecoverAvailableData as wait_for_recovery
\* builds it, with the hash of the candidate it is for and whether the
\* overseer took it.
RecoverAvailableData(hash, candidate, delivered) == [hash |-> hash, receipt |-> candidate.receipt, session_index |-> candidate.session_index, backing_group |-> None, delivered |-> delivered]

\* A wait_for_recovery that records the started recovery in the set.
RecoveringInsert(recovering, recover) == recovering \cup {recover}

\* The recovering_candidates set after a recovery was started for recover:
\* wait_for_recovery does not write the set.
RecoveringAfterStart(recovering, recover) == recovering

\* One turn of the loop of wait_for_recovery for a timer that yields recover:
\* the map and the recovering set afterwards and the messages sent.
WaitForRecovery(pending, recovering, recover, delivered) ==
    IF pending[recover] = None THEN [pending |-> pending, recovering |-> recovering, sends |-> <<>>]
    ELSE [pending |-> [pending EXCEPT ![recover] = None], recovering |-> RecoveringAfterStart(recovering, recover), sends |-> <<RecoverAvailableData(recover, pending[recover][1], delivered)>>]

\* next_candidate_to_recover.next() yields the hash of an expired timer.
TimerFires(recover, delivered) ==
    LET r == WaitForRecovery(pending_candidates, recovering_candidates, recover, delivered) IN
    /\ next_candidate_to_recover[recover] > 0
    /\ r.sends = <<>> => delivered
    /\ next_candidate_to_recover' = [next_candidate_to_recover EXCEPT ![recover] = @ - 1]
    /\ pending_candidates' = r.pending
    /\ recovering_candidates' = r.recovering
    /\ last_recovery' = IF r.sends # <<>> /\ delivered THEN Some(r.sends[1].hash) ELSE last_recovery
    /\ ev' = [Event("timer", recover) EXCEPT !.sends = r.sends]
    /\ UNCHANGED <<exited, clientVars, unset_best_header, last_finalize, imported_told, inserted_since, finalized_told>>

\* The overseer answers the latest recovery request on its reply channel
\* (with the data or with an error): the recovery is complete. Nothing of
\* the structure reads the answer.
RecoveryCompletes ==
    /\ last_recovery # None
    /\ last_recovery' = None
    /\ ev' = Event("recovery_done", last_recovery[1])
    /\ UNCHANGED <<exited, clientVars, unset_best_header, recoveryVars, last_finalize, imported_told, inserted_since, finalized_told>>

\* insert_pending_candidate called for the candidate of a block the client
\* does not know.
InsertUnknownCandidate(header, receipt) ==
    /\ block_status[Hash(header)] = "Unknown"
    /\ InsertPendingCandidate(header, receipt, SessionOf(receipt))

\* ------------------------------------------------------------- specifications
NextClient ==
    \/ \E header \in Headers, origin \in {"Own", "NetworkBroadcast"}, is_new_best \in BOOLEAN : ClientImport(header, origin, is_new_best)
    \/ \E h \in Hashes : ClientPrune(h)

NextBest ==
    \/ \E head \in HeadData, answer \in Answers, ok \in BOOLEAN : NewBestHead(head, answer, ok)
    \/ \E answer \in Answers, ok \in BOOLEAN : ImportedBlock(answer, ok)
    \/ \E head_data \in HeadData, answer \in Answers : PendingCandidateItem(head_data, answer)
    \/ NextClient

\* follow_finalized_head next to a client whose notifications are read.
NextFinalized ==
    \/ \E finalized_head \in HeadData, outcome \in {"Ok", "UnknownBlock", "Err"} : FinalizedHead(finalized_head, outcome)
    \/ \E header \in Headers, origin \in {"Own", "NetworkBroadcast"}, is_new_best \in BOOLEAN : ClientImport(header, origin, is_new_best)
    \/ \E answer \in Answers, ok \in BOOLEAN : ImportedBlock(answer, ok)

\* The calls of the recovery structure in any order, for the candidates of
\* one chain.
ChainHeaders == {header \in Headers : header.fork = 0}
NextRecovery ==
    \/ \E header \in ChainHeaders, receipt \in Receipts : InsertPendingCandidate(header, receipt, SessionOf(receipt))
    \/ \E header \in ChainHeaders : BlockImported(Hash(header))
    \/ \E block_number \in Numbers : BlockFinalized(block_number)
    \/ \E header \in ChainHeaders, delivered \in BOOLEAN : TimerFires(Hash(header), delivered)
    \/ RecoveryCompletes

\* The candidates the relay chain announces, the imports of the client and
\* the notifications follow_new_best reads, next to a recovery structure
\* that is handed the candidates of blocks the client does not know.
NextCandidates ==
    \/ \E head_data \in HeadData, answer \in Answers : PendingCandidateItem(head_data, answer)
    \/ \E answer \in Answers, ok \in BOOLEAN : ImportedBlock(answer, ok)
    \/ \E header \in Headers, origin \in {"Own", "NetworkBroadcast"}, is_new_best \in BOOLEAN : ClientImport(header, origin, is_new_best)
    \/ \E header \in Headers, receipt \in Receipts : InsertUnknownCandidate(header, receipt)

\* run_parachain_consensus: both sub-drivers, the streams and the client.
NextRun ==
    \/ \E head \in HeadData, answer \in Answers, ok \in BOOLEAN : NewBestHead(head, answer, ok)
    \/ \E answer \in Answers, ok \in BOOLEAN : ImportedBlock(answer, ok)
    \/ \E head_data \in HeadData, answer \in Answers : PendingCandidateItem(head_data, answer)
    \/ \E finalized_head \in HeadData, outcome \in {"Ok", "UnknownBlock", "Err"} : FinalizedHead(finalized_head, outcome)
    \/ \E stream \in Streams : StreamEnds(stream)
    \/ \E header \in Headers, origin \in {"Own", "NetworkBroadcast"}, is_new_best \in BOOLEAN : ClientImport(header, origin, is_new_best)

Next == NextBest \/ NextFinalized \/ NextRecovery \/ NextCandidates \/ NextRun

\* follow_new_best and the client.
SpecBest == Init /\ [][NextBest]_vars
\* follow_finalized_head and the client.
SpecFinalized == Init /\ [][NextFinalized]_vars
\* The CandidateRecovery structure under any order of calls.
SpecRecovery == Init /\ [][NextRecovery]_vars
\* The CandidateRecovery structure with timers that expire: the Delay of a
\* timer is at most the slot duration, so an armed timer is yielded by
\* next_candidate_to_recover in the end.
SpecRecoveryFair == SpecRecovery /\ \A header \in ChainHeaders : WF_vars(\E delivered \in BOOLEAN : TimerFires(Hash(header), delivered))
\* The candidate path of follow_new_best next to the recovery structure.
SpecCandidates == Init /\ [][NextCandidates]_vars
\* run_parachain_consensus.
SpecRun == Init /\ [][NextRun]_vars
\* The whole of the file.
Spec == Init /\ [][Next]_vars

\* --------------------------------------------------------------------- claims
\* The hashes the last step built a recovery request for, and those of
\* them the overseer took.
SentFor == {ev.sends[i].hash : i \in DOMAIN ev.sends}
DeliveredFor == {ev.sends[i].hash : i \in {j \in DOMAIN ev.sends : ev.sends[j].delivered}}

\* C1 as stated: once block_imported(h) was called, no recovery request is
\* sent for h at any later point, whatever calls follow.
C1_NoRecoveryAfterImport == DeliveredFor \cap imported_told = {}

\* C1, amended: once block_imported(h) was called, no recovery request is
\* sent for h unless h was inserted again after that call; a timer for h
\* that fires with no such insert sends nothing.
C1_NoRecoveryUnlessReinserted == SentFor \cap (imported_told \ inserted_since) = {}

\* A timer for h fired after block_imported(h), with no insert of h since,
\* and nothing was sent.
C1_Witness == ev.kind = "timer" /\ ev.hash \in imported_told \ inserted_since /\ ev.sends = <<>>

\* C2: announce is called exactly once, with the hash and no data, for
\* every import notification read whose origin is not Own (those of the
\* driver's own re-imports, of origin ConsensusBroadcast, among them), and
\* not at all for a notification whose origin is Own; no other step
\* announces.
C2_AnnounceNonOwn ==
    /\ ev.kind = "imported" => ev.announces = IF ev.note.origin # "Own" THEN <<[hash |-> ev.note.hash, data |-> None]>> ELSE <<>>
    /\ ev.kind # "imported" => ev.announces = <<>>

\* The notification of one of the driver's re-imports was read and the
\* block announced.
C2_Witness == ev.kind = "imported" /\ ev.note.origin = "ConsensusBroadcast" /\ ev.announces = <<[hash |-> ev.hash, data |-> None]>>

\* C3 as stated: no two consecutive finalize_block calls carry the same hash.
C3_NoRepeatedFinalize == [][\A i \in DOMAIN ev'.finalizes : last_finalize = None \/ last_finalize[1].hash # ev'.finalizes[i]]_vars

\* C3, amended: a finalize_block call does not carry the hash of the call
\* before it when that call succeeded; after a failed call (UnknownBlock or
\* another error) the same hash is tried again.
C3_NoRepeatAfterSuccess == [][\A i \in DOMAIN ev'.finalizes : last_finalize = None \/ last_finalize[1].outcome # "Ok" \/ last_finalize[1].hash # ev'.finalizes[i]]_vars

\* The head of the latest call, which succeeded, came again and no call was
\* made.
C3_Witness == ev.kind = "finalized_head" /\ ev.hash # NoHash /\ ev.finalizes = <<>> /\ last_finalize # None /\ last_finalize[1] = [hash |-> ev.hash, outcome |-> "Ok"]

\* C4: the follower holds at most one deferred best header, and a relay
\* new-best head whose status is Unknown, processed while a header is
\* deferred, leaves exactly the announced header deferred.
C4_OneDeferredOverwritten ==
    /\ Len(unset_best_header) <= 1
    /\ (ev.kind = "new_best" /\ ev.status = "Unknown" /\ ev.before # None) => unset_best_header = Some(HeaderOf(ev.hash))

\* An Unknown new-best head replaced a different deferred header.
C4_Witness == ev.kind = "new_best" /\ ev.status = "Unknown" /\ ev.before # None /\ ev.before # unset_best_header

C6_ImportedNotPending == \A h \in Hashes : (block_status[h] # "Unknown" /\ \A i \in DOMAIN imported_blocks : imported_blocks[i].hash # h) => pending_candidates[h] = None

\* C7 as stated: once block_finalized(F) was called, pending_candidates
\* holds no entry with block_number <= F in any later state.
C7_NoneBelowFinalizedEver == \A h \in PendingKeys(pending_candidates) : pending_candidates[h][1].block_number > finalized_told

\* C7, amended: right after block_finalized(F) pending_candidates holds no
\* entry with block_number <= F and every entry above F as it was; a later
\* insert puts an entry with block_number <= F back.
C7_EvictionAtFinalized ==
    [][ev'.kind = "block_finalized" => \A h \in Hashes :
        /\ pending_candidates'[h] # None => (pending_candidates'[h] = pending_candidates[h] /\ pending_candidates'[h][1].block_number > ev'.number)
        /\ (pending_candidates[h] # None /\ pending_candidates[h][1].block_number > ev'.number) => pending_candidates'[h] = pending_candidates[h]]_vars

\* block_finalized ran below the highest number and left an entry.
C7_Witness == ev.kind = "block_finalized" /\ ev.number < MaxNumber /\ PendingKeys(pending_candidates) # {}

\* C8: the deferred header becomes a new header H only in the run of
\* handle_new_best_parachain_head for a head that decodes to H, is not the
\* best block and has status Unknown.
C8_SetOnlyOnUnknown == [][(unset_best_header' # unset_best_header /\ unset_best_header' # None) => (ev'.kind = "new_best" /\ ev'.status = "Unknown" /\ ev'.hash # best_hash /\ unset_best_header' = Some(HeaderOf(ev'.hash)))]_vars

\* An Unknown new-best head was deferred.
C8_Witness == ev.kind = "new_best" /\ ev.status = "Unknown" /\ ev.hash # best_hash /\ unset_best_header = Some(HeaderOf(ev.hash)) /\ ev.before = None

\* C9: a relay new-best head that is not the best block and has status
\* InChainWithState makes one import_block request for it (origin
\* ConsensusBroadcast, fork choice Custom(true), import_existing) and
\* leaves no deferred header, whatever was deferred and whatever
\* import_block returns.
C9_ImportAsNewBest == (ev.kind = "new_best" /\ ev.status = "InChainWithState") => (ev.imports = <<[hash |-> ev.hash, header |-> HeaderOf(ev.hash), origin |-> "ConsensusBroadcast", fork_choice |-> "Custom(true)", import_existing |-> TRUE]>> /\ unset_best_header = None)

\* Such a head came while a header was deferred and import_block failed.
C9_Witness == ev.kind = "new_best" /\ ev.status = "InChainWithState" /\ ev.before # None /\ best_hash # ev.hash

\* C10: a relay new-best head whose status is InChainPruned makes no
\* import_block request and leaves the deferred header as it was.
C10_PrunedLeavesDeferred == (ev.kind = "new_best" /\ ev.status = "InChainPruned") => (ev.imports = <<>> /\ unset_best_header = ev.before)

\* A pruned new-best head came while a header was deferred.
C10_Witness == ev.kind = "new_best" /\ ev.status = "InChainPruned" /\ ev.before # None

\* C11: when any of the four streams ends, the sub-driver reading it
\* returns (follow_finalized_head with Ok(()), follow_new_best from any of
\* its three streams) and the task completes with it; once it has, no
\* handler of either sub-driver runs again: the deferred header, the
\* finalized block and the notifications already queued stay as they are.
C11_ExitStopsTask ==
    [][/\ ev'.kind = "stream_end" => exited' = Some(IF ev'.status = "finalized_heads" THEN [driver |-> "follow_finalized_head", result |-> "Ok(())"] ELSE [driver |-> "follow_new_best", result |-> "()"])
       /\ exited # None => (/\ exited' = exited
                            /\ ev'.kind \notin {"new_best", "imported", "pending_candidate", "finalized_head", "stream_end"}
                            /\ unset_best_header' = unset_best_header
                            /\ finalized_hash' = finalized_hash
                            /\ \A i \in DOMAIN imported_blocks : imported_blocks'[i] = imported_blocks[i])]_vars

\* The task completed on the end of a stream of follow_new_best while a
\* header was deferred, and a notification the client sent afterwards is
\* left unread.
C11_Witness == exited = Some([driver |-> "follow_new_best", result |-> "()"]) /\ unset_best_header # None /\ imported_blocks # <<>> /\ ev.kind = "client_import"

\* C12 as stated: after an import notification for the block whose hash is
\* the hash of the deferred header was processed, no header is deferred.
C12_MatchingImportClears == (ev.kind = "imported" /\ ev.before # None /\ Hash(ev.before[1]) = ev.hash) => unset_best_header = None

\* C12, amended: an import notification for the block of the deferred
\* header clears the deferred header exactly when its is_new_best flag is
\* false and the re-check of the block status yields InChainWithState (the
\* status is read whenever the flag is false); with the flag set, or with
\* any other status or a status error, the deferred header stays as it was.
\* The origin plays no part.
C12_MatchingImportClearsIfState ==
    (ev.kind = "imported" /\ ev.before # None /\ Hash(ev.before[1]) = ev.hash) =>
        /\ ev.note.is_new_best <=> ev.status = "none"
        /\ unset_best_header = IF ~ev.note.is_new_best /\ ev.status = "InChainWithState" THEN None ELSE ev.before

\* The notification of the deferred block, not a new best block, was read
\* and the deferred header cleared.
C12_Witness == ev.kind = "imported" /\ ev.before # None /\ Hash(ev.before[1]) = ev.hash /\ ~ev.note.is_new_best /\ ev.note.origin = "Own" /\ unset_best_header = None

\* C13: for an import notification with is_new_best = false read while a
\* header U is deferred, the status of U is re-checked (promotion is
\* attempted) never when the imported number is below U's, only for U's own
\* hash when the numbers are equal, and always when the imported number is
\* above U's, whatever block of whatever fork was imported; when it is not
\* attempted the deferred header stays U and no import_block request is
\* made.
C13_PromotionByNumber ==
    (ev.kind = "imported" /\ ~ev.note.is_new_best /\ ev.before # None) =>
        LET u == ev.before[1]
            attempted == ev.status # "none"
        IN  /\ ev.note.header.number < u.number => ~attempted
            /\ ev.note.header.number = u.number => (attempted <=> ev.note.hash = u.number * 2 + u.fork)
            /\ ev.note.header.number > u.number => attempted
            /\ ~attempted => (unset_best_header = ev.before /\ ev.imports = <<>>)

\* A block of the other fork, above the deferred header, was imported and
\* the status of the deferred header re-checked.
C13_Witness == ev.kind = "imported" /\ ~ev.note.is_new_best /\ ev.before # None /\ ev.note.header.number > ev.before[1].number /\ ev.note.header.fork # ev.before[1].fork /\ ev.status # "none"

\* C14: when handle_new_block_imported re-checks the status of the deferred
\* header U, it reads the status of U's hash (what the client holds for it,
\* Queued, or an error); if that is InChainWithState the deferred header is
\* cleared and one import_block request for U is made (origin
\* ConsensusBroadcast, fork choice Custom(true), import_existing); for any
\* other status and for an error U stays deferred and no request is made.
C14_RecheckBeforePromotion ==
    (ev.kind = "imported" /\ ev.status # "none") =>
        /\ ev.before # None
        /\ ev.status \in {block_status[Hash(ev.before[1])], "Queued", "Err"}
        /\ IF ev.status = "InChainWithState"
           THEN /\ unset_best_header = None
                /\ ev.imports = <<[hash |-> Hash(ev.before[1]), header |-> ev.before[1], origin |-> "ConsensusBroadcast", fork_choice |-> "Custom(true)", import_existing |-> TRUE]>>
           ELSE /\ unset_best_header = ev.before
                /\ ev.imports = <<>>

\* The deferred block was imported and promoted from its notification.
C14_Witness == ev.kind = "imported" /\ ev.status = "InChainWithState" /\ ev.before # None /\ ev.note.hash = Hash(ev.before[1]) /\ Len(ev.imports) = 1 /\ unset_best_header = None

\* C15 as stated: a timer that fires for a hash that is no key of
\* pending_candidates sends nothing and leaves pending_candidates and
\* recovering_candidates as they are; one that fires for a key h removes h
\* from pending_candidates, adds h to recovering_candidates and sends one
\* RecoverAvailableData with the stored receipt and session index and no
\* backing group.
C15_TimerStartsRecovery ==
    [][ev'.kind = "timer" =>
        IF pending_candidates[ev'.hash] = None
        THEN ev'.sends = <<>> /\ pending_candidates' = pending_candidates /\ recovering_candidates' = recovering_candidates
        ELSE /\ pending_candidates' = [pending_candidates EXCEPT ![ev'.hash] = None]
             /\ recovering_candidates' = recovering_candidates \cup {ev'.hash}
             /\ Len(ev'.sends) = 1
             /\ ev'.sends[1].receipt = pending_candidates[ev'.hash][1].receipt
             /\ ev'.sends[1].session_index = pending_candidates[ev'.hash][1].session_index
             /\ ev'.sends[1].backing_group = None]_vars

\* C16 as stated: when a deferred header U is replaced by a header U' on
\* the same fork, U'.number >= U.number.
C16_DeferredNumberMonotone == [][(unset_best_header # None /\ unset_best_header' # None /\ unset_best_header' # unset_best_header /\ SameFork(unset_best_header[1], unset_best_header'[1])) => unset_best_header'[1].number >= unset_best_header[1].number]_vars

\* C16, amended: a deferred header U is replaced only by a relay new-best
\* head of status Unknown, and every such head on the fork of U, of a lower
\* number as well as of a higher one, becomes the deferred header: no
\* numbers are compared, the deferred number follows the announcements.
C16_ReplacedByAnnounced ==
    [][/\ (unset_best_header # None /\ unset_best_header' # None /\ unset_best_header' # unset_best_header) => (ev'.kind = "new_best" /\ ev'.status = "Unknown")
       /\ (unset_best_header # None /\ ev'.kind = "new_best" /\ ev'.status = "Unknown" /\ SameFork(unset_best_header[1], HeaderOf(ev'.hash))) => unset_best_header' = Some(HeaderOf(ev'.hash))]_vars

\* An Unknown new-best head below the deferred header, on its fork,
\* replaced it.
C16_Witness == ev.kind = "new_best" /\ ev.status = "Unknown" /\ ev.before # None /\ unset_best_header # None /\ SameFork(ev.before[1], unset_best_header[1]) /\ unset_best_header[1].number < ev.before[1].number

\* C17 as stated: after a pending-candidate item whose block has status
\* Unknown was processed, the candidate is a key of pending_candidates with
\* the number of its header; after one of any other status, or a status
\* error, the recovery structure is as it was.
C17_UnknownCandidateInserted ==
    [][ev'.kind = "pending_candidate" =>
        IF ev'.status = "Unknown"
        THEN pending_candidates'[ev'.hash] # None /\ pending_candidates'[ev'.hash][1].block_number = HeaderOf(ev'.hash).number
        ELSE <<pending_candidates, next_candidate_to_recover, recovering_candidates>>' = <<pending_candidates, next_candidate_to_recover, recovering_candidates>>]_vars

\* C18 as stated, for the notification read next after a relay new-best
\* head H that decoded and was the best block already, pruned, or met by a
\* status error: an import_block request made then, H being the latest
\* relay head, is a request for H; the header left deferred when H was
\* processed is not promoted.
C18_ImportsLatestRelayBest == [][(ev.kind = "new_best" /\ ev.hash # NoHash /\ ev.status \in {"none", "InChainPruned", "Err"} /\ ev'.kind = "imported") => \A i \in DOMAIN ev'.imports : ev'.imports[i].hash = ev.hash]_vars

\* C19 as stated: no recovery request is sent for a hash while a request
\* for that hash is outstanding (taken by the overseer and not yet
\* answered), whatever the order of inserts, timers, evictions and answers.
C19_OneOutstandingRequest == [][(ev'.kind = "timer" /\ \E i \in DOMAIN ev'.sends : ev'.sends[i].delivered) => last_recovery # Some(ev'.hash)]_vars

\* C20: every key of pending_candidates has an armed timer that has not
\* fired, also after an insert for a key already present, which arms none;
\* so, armed timers firing in the end, every hash that is a key of
\* pending_candidates stops being one (its recovery is started, or
\* block_imported or block_finalized removes it).
C20_PendingLeaves ==
    /\ [](\A h \in Hashes : pending_candidates[h] # None => next_candidate_to_recover[h] >= 1)
    /\ \A h \in Hashes : (pending_candidates[h] # None) ~> (pending_candidates[h] = None)

\* An insert for a key already present replaced the candidate and armed no
\* timer: the key has the one timer of its first insert.
C20_Witness == ev.kind = "insert" /\ ev.status = "replaced" /\ pending_candidates[ev.hash] # None /\ next_candidate_to_recover[ev.hash] = 1

====
